---- MODULE Spec2Model ----
(***************************************************************************)
(* Model of rubiks-sim/cube.py: class RubiksCube.                          *)
(*                                                                         *)
(* The cube keeps its six faces as numpy arrays inside a dict.  numpy      *)
(* hands out views (np.rot90 returns a view of its argument, a plain       *)
(* assignment shares the array) and the rotation primitive writes rows and *)
(* columns in place, so the model keeps an explicit memory:                *)
(*   heap : array buffers, buffer id -> 3x3 grid                           *)
(*   objs : dict objects,  dict id   -> [face -> array reference]          *)
(* An array reference is [buf, rot]: the buffer it looks at and the number *)
(* of counter-clockwise quarter turns np.rot90 has put between the buffer  *)
(* and what the reference shows.                                            *)
(***************************************************************************)
EXTENDS Integers, Sequences, FiniteSets, TLC

VARIABLES
    heap,          \* array buffers that are still referenced
    objs,          \* dict objects that are still referenced
    state,         \* self.state: id of a dict
    solved_state,  \* self.solved_state: id of a dict
    snap,          \* the caller's variable holding copy_state()'s result (0: none yet)
    hist,          \* the calls made so far, oldest first
    trail          \* trail[k]: the six grids of self.state just before call hist[k]

vars == <<heap, objs, state, solved_state, snap, hist, trail>>

(***************************************************************************)
(* Bounds of the exploration.                                              *)
(***************************************************************************)
MaxSteps == 2
MaxTurns == 3
MaxPrefix == 2
MaxRepeat == 4
MaxSnapSteps == 3
MaxShuffle == 3
MaxResetTurns == 2
MaxScramble == 2
MaxSeqPrefix == 1
MaxCount == 5
MaxSeqRepeat == 4
MaxFrontPrefix == 1
MaxRounds == 6

(***************************************************************************)
(* __init__: keys and tables.                                              *)
(***************************************************************************)
face_keys == <<"F", "B", "U", "D", "R", "L">>
color_keys == <<1, 2, 3, 4, 5, 6>>
direction_keys == <<"+", "-">>
orientation_key == <<"h", "v">>

Range(s) == {s[k] : k \in DOMAIN s}
Faces == Range(face_keys)
Directions == Range(direction_keys)

move_keys == <<<<"F", "+">>, <<"F", "-">>, <<"B", "+">>, <<"B", "-">>,
               <<"U", "+">>, <<"U", "-">>, <<"D", "+">>, <<"D", "-">>,
               <<"R", "+">>, <<"R", "-">>, <<"L", "+">>, <<"L", "-">>>>

\* Mutant: the entries of U and D exchanged.
adjacency_updown ==
    [F |-> <<>>, B |-> <<<<"h", 2>>>>, U |-> <<<<"v", -1>>>>,
     D |-> <<<<"v", 1>>>>, L |-> <<<<"h", -1>>>>, R |-> <<<<"h", 1>>>>]

adjacency ==
    [F |-> <<>>, B |-> <<<<"h", 2>>>>, U |-> <<<<"v", 1>>>>,
     D |-> <<<<"v", -1>>>>, L |-> <<<<"h", -1>>>>, R |-> <<<<"h", 1>>>>]

\* Mutant: the inverse table written as a copy of the forward table.
counter_adjacency_same ==
    [F |-> <<>>, B |-> <<<<"h", 2>>>>, U |-> <<<<"v", 1>>>>,
     D |-> <<<<"v", -1>>>>, L |-> <<<<"h", -1>>>>, R |-> <<<<"h", 1>>>>]

counter_adjacency ==
    [F |-> <<>>, B |-> <<<<"h", 2>>>>, U |-> <<<<"v", -1>>>>,
     D |-> <<<<"v", 1>>>>, L |-> <<<<"h", 1>>>>, R |-> <<<<"h", -1>>>>]

\* The methods class RubiksCube defines; any other attribute lookup on self
\* raises AttributeError.
Methods ==
    {"__init__", "change_orientation", "perform_rotation", "forward_set_front",
     "backward_set_front", "move", "apply_random_move", "copy_state",
     "restore_state", "reset_state", "shuffle_state", "is_solved"}

(***************************************************************************)
(* numpy on 3x3 arrays and on lines of 3.                                  *)
(***************************************************************************)
Idx == 0..2

\* Mutant: color_key * np.eye(3) in place of color_key * np.ones((3, 3)).
full_eye(c) == [i \in Idx |-> [j \in Idx |-> IF i = j THEN c ELSE 0]]

\* np.full((3, 3), c) and c * np.ones((3, 3))
full(c) == [i \in Idx |-> [j \in Idx |-> c]]

\* Mutant: the turns counted clockwise.
rot90_cw(m, k) ==
    CASE k % 4 = 0 -> m
      [] k % 4 = 1 -> [i \in Idx |-> [j \in Idx |-> m[2 - j][i]]]
      [] k % 4 = 2 -> [i \in Idx |-> [j \in Idx |-> m[2 - i][2 - j]]]
      [] k % 4 = 3 -> [i \in Idx |-> [j \in Idx |-> m[j][2 - i]]]

\* np.rot90(m, k): k quarter turns counter-clockwise, k taken modulo 4:
\*   0: m;  1: transpose(flip(m, 1));  2: flip(flip(m, 0), 1);
\*   3: flip(transpose(m), 1)
rot90(m, k) ==
    CASE k % 4 = 0 -> m
      [] k % 4 = 1 -> [i \in Idx |-> [j \in Idx |-> m[j][2 - i]]]
      [] k % 4 = 2 -> [i \in Idx |-> [j \in Idx |-> m[2 - i][2 - j]]]
      [] k % 4 = 3 -> [i \in Idx |-> [j \in Idx |-> m[2 - j][i]]]

\* np.flip on a line
flip(v) == [i \in Idx |-> v[2 - i]]

\* m[i, :] and m[:, j]
row(m, i) == m[i]
col(m, j) == [i \in Idx |-> m[i][j]]

\* m[i, :] = v and m[:, j] = v
with_row(m, i, v) == [m EXCEPT ![i] = v]
with_col(m, j, v) == [i \in Idx |-> [m[i] EXCEPT ![j] = v[i]]]

(***************************************************************************)
(* Memory: mem = [heap, objs].                                             *)
(***************************************************************************)
Memory(h, o) == [heap |-> h, objs |-> o]

\* An id no live object has.
Unused(ids) == CHOOSE n \in 1..(Cardinality(ids) + 1) : n \notin ids

new_buf(mem) == Unused(DOMAIN mem.heap)
new_obj(mem) == Unused(DOMAIN mem.objs)

\* What an array reference shows.
view(mem, ref) == rot90(mem.heap[ref.buf], ref.rot)

\* np.rot90(a, k) of a stored array: a view of the same buffer
rot90_view(ref, k) == [buf |-> ref.buf, rot |-> (ref.rot + k) % 4]

\* What a buffer holds: the nine values of grid g, worked out when they are
\* written (TLC would keep the expression [i \in Idx |-> ...] instead).
line3(v) == (0 :> v[0]) @@ (1 :> v[1]) @@ (2 :> v[2])
array(g) == (0 :> line3(g[0])) @@ (1 :> line3(g[1])) @@ (2 :> line3(g[2]))

\* A new array holding grid g; the reference to it is fresh(mem).
fresh(mem) == [buf |-> new_buf(mem), rot |-> 0]
allocate(mem, g) == [mem EXCEPT !.heap = (new_buf(mem) :> array(g)) @@ mem.heap]

\* d[f] = ref
setitem(mem, d, f, ref) == [mem EXCEPT !.objs[d][f] = ref]

\* d[f][i, :] = v and d[f][:, j] = v: written through the reference into its buffer
store(mem, ref, g) == [mem EXCEPT !.heap[ref.buf] = array(rot90(g, 4 - ref.rot))]
set_row(mem, d, f, i, v) ==
    store(mem, mem.objs[d][f], with_row(view(mem, mem.objs[d][f]), i, v))
set_col(mem, d, f, j, v) ==
    store(mem, mem.objs[d][f], with_col(view(mem, mem.objs[d][f]), j, v))

\* The grids a dict shows, face by face.
grids(mem, d) == [f \in DOMAIN mem.objs[d] |-> array(view(mem, mem.objs[d][f]))]

\* Reference counting: what no root reaches is freed.
collect(mem, roots) ==
    LET live == (roots \ {0}) \cap DOMAIN mem.objs
        bufs == {mem.objs[d][f].buf : d \in live, f \in Faces}
    IN  Memory([b \in bufs |-> mem.heap[b]], [d \in live |-> mem.objs[d]])

(***************************************************************************)
(* The methods of RubiksCube, as functions of the memory.  s is the dict   *)
(* self.state refers to during the call.                                   *)
(***************************************************************************)

\* A new dict; its id is new_obj(mem).  Every face is assigned before the
\* dict is used.
empty_dict(mem) ==
    [mem EXCEPT !.objs = [x \in DOMAIN mem.objs \cup {new_obj(mem)} |->
                            IF x \in DOMAIN mem.objs THEN mem.objs[x]
                            ELSE [f \in Faces |-> [buf |-> 0, rot |-> 0]]]]

\* {face_key: <new array full of color_key> for face_key, color_key in
\*  zip(self.face_keys, self.color_keys)}, from position k on, into dict d
RECURSIVE fill_faces(_, _, _)
fill_faces(mem, d, k) ==
    IF k > Len(face_keys) \/ k > Len(color_keys) THEN mem
    ELSE LET ref == fresh(mem)
             m1 == allocate(mem, full(color_keys[k]))
         IN  fill_faces(setitem(m1, d, face_keys[k], ref), d, k + 1)

\* __init__: self.state is a new dict (id new_obj(mem)) of six new arrays.
new_cube(mem) == fill_faces(empty_dict(mem), new_obj(mem), 1)

\* Mutant: no temp: the old Front is read after Front has been reassigned.
change_orientation_notemp(mem, s, key) ==
    IF key = "h" THEN
        LET m2 == setitem(mem, s, "F", mem.objs[s]["R"])
            m3 == setitem(m2, s, "R", m2.objs[s]["B"])
            m4 == setitem(m3, s, "B", m3.objs[s]["L"])
            m5 == setitem(m4, s, "L", m4.objs[s]["F"])
            m6 == setitem(m5, s, "U", rot90_view(m5.objs[s]["U"], -1))
        IN  setitem(m6, s, "D", rot90_view(m6.objs[s]["D"], 1))
    ELSE IF key = "v" THEN
        LET m2 == setitem(mem, s, "F", mem.objs[s]["U"])
            m3 == setitem(m2, s, "U", rot90_view(m2.objs[s]["B"], 2))
            m4 == setitem(m3, s, "B", rot90_view(m3.objs[s]["D"], 2))
            m5 == setitem(m4, s, "D", m4.objs[s]["F"])
            m6 == setitem(m5, s, "L", rot90_view(m5.objs[s]["L"], -1))
        IN  setitem(m6, s, "R", rot90_view(m6.objs[s]["R"], 1))
    ELSE mem

\* Mutant: in the vertical turn Back takes Down as it is, the half turn
\* np.rot90(..., 2) left out.
change_orientation_one180(mem, s, key) ==
    IF key = "h" THEN
        LET temp == fresh(mem)
            m1 == allocate(mem, view(mem, mem.objs[s]["F"]))
            m2 == setitem(m1, s, "F", m1.objs[s]["R"])
            m3 == setitem(m2, s, "R", m2.objs[s]["B"])
            m4 == setitem(m3, s, "B", m3.objs[s]["L"])
            m5 == setitem(m4, s, "L", temp)
            m6 == setitem(m5, s, "U", rot90_view(m5.objs[s]["U"], -1))
        IN  setitem(m6, s, "D", rot90_view(m6.objs[s]["D"], 1))
    ELSE IF key = "v" THEN
        LET temp == fresh(mem)
            m1 == allocate(mem, view(mem, mem.objs[s]["F"]))
            m2 == setitem(m1, s, "F", m1.objs[s]["U"])
            m3 == setitem(m2, s, "U", rot90_view(m2.objs[s]["B"], 2))
            m4 == setitem(m3, s, "B", m3.objs[s]["D"])
            m5 == setitem(m4, s, "D", temp)
            m6 == setitem(m5, s, "L", rot90_view(m5.objs[s]["L"], -1))
        IN  setitem(m6, s, "R", rot90_view(m6.objs[s]["R"], 1))
    ELSE mem

change_orientation(mem, s, key) ==
    IF key = "h" THEN
        LET temp == fresh(mem)
            m1 == allocate(mem, view(mem, mem.objs[s]["F"]))
            m2 == setitem(m1, s, "F", m1.objs[s]["R"])
            m3 == setitem(m2, s, "R", m2.objs[s]["B"])
            m4 == setitem(m3, s, "B", m3.objs[s]["L"])
            m5 == setitem(m4, s, "L", temp)
            m6 == setitem(m5, s, "U", rot90_view(m5.objs[s]["U"], -1))
        IN  setitem(m6, s, "D", rot90_view(m6.objs[s]["D"], 1))
    ELSE IF key = "v" THEN
        LET temp == fresh(mem)
            m1 == allocate(mem, view(mem, mem.objs[s]["F"]))
            m2 == setitem(m1, s, "F", m1.objs[s]["U"])
            m3 == setitem(m2, s, "U", rot90_view(m2.objs[s]["B"], 2))
            m4 == setitem(m3, s, "B", rot90_view(m3.objs[s]["D"], 2))
            m5 == setitem(m4, s, "D", temp)
            m6 == setitem(m5, s, "L", rot90_view(m5.objs[s]["L"], -1))
        IN  setitem(m6, s, "R", rot90_view(m6.objs[s]["R"], 1))
    ELSE mem

\* Mutant: np.flip left out of the clockwise turn.
perform_rotation_noflip(mem, s, direction_key) ==
    IF direction_key = "+" THEN
        LET m1 == setitem(mem, s, "F", rot90_view(mem.objs[s]["F"], -1))
            temp == row(view(m1, m1.objs[s]["U"]), 2)
            m2 == set_row(m1, s, "U", 2, col(view(m1, m1.objs[s]["L"]), 2))
            m3 == set_col(m2, s, "L", 2, row(view(m2, m2.objs[s]["D"]), 0))
            m4 == set_row(m3, s, "D", 0, col(view(m3, m3.objs[s]["R"]), 0))
        IN  set_col(m4, s, "R", 0, temp)
    ELSE IF direction_key = "-" THEN
        LET m1 == setitem(mem, s, "F", rot90_view(mem.objs[s]["F"], 1))
            temp == row(view(m1, m1.objs[s]["U"]), 2)
            m2 == set_row(m1, s, "U", 2, col(view(m1, m1.objs[s]["R"]), 0))
            m3 == set_col(m2, s, "R", 0, flip(row(view(m2, m2.objs[s]["D"]), 0)))
            m4 == set_row(m3, s, "D", 0, col(view(m3, m3.objs[s]["L"]), 2))
        IN  set_col(m4, s, "L", 2, flip(temp))
    ELSE mem

\* Mutant: temp is the row itself (no .copy()), so it is read after the row
\* has been overwritten.
perform_rotation_tempview(mem, s, direction_key) ==
    IF direction_key = "+" THEN
        LET m1 == setitem(mem, s, "F", rot90_view(mem.objs[s]["F"], -1))
            m2 == set_row(m1, s, "U", 2, flip(col(view(m1, m1.objs[s]["L"]), 2)))
            m3 == set_col(m2, s, "L", 2, row(view(m2, m2.objs[s]["D"]), 0))
            m4 == set_row(m3, s, "D", 0, flip(col(view(m3, m3.objs[s]["R"]), 0)))
        IN  set_col(m4, s, "R", 0, row(view(m4, m4.objs[s]["U"]), 2))
    ELSE IF direction_key = "-" THEN
        LET m1 == setitem(mem, s, "F", rot90_view(mem.objs[s]["F"], 1))
            m2 == set_row(m1, s, "U", 2, col(view(m1, m1.objs[s]["R"]), 0))
            m3 == set_col(m2, s, "R", 0, flip(row(view(m2, m2.objs[s]["D"]), 0)))
            m4 == set_row(m3, s, "D", 0, col(view(m3, m3.objs[s]["L"]), 2))
        IN  set_col(m4, s, "L", 2, flip(row(view(m4, m4.objs[s]["U"]), 2)))
    ELSE mem

perform_rotation(mem, s, direction_key) ==
    IF direction_key = "+" THEN
        LET m1 == setitem(mem, s, "F", rot90_view(mem.objs[s]["F"], -1))
            temp == row(view(m1, m1.objs[s]["U"]), 2)
            m2 == set_row(m1, s, "U", 2, flip(col(view(m1, m1.objs[s]["L"]), 2)))
            m3 == set_col(m2, s, "L", 2, row(view(m2, m2.objs[s]["D"]), 0))
            m4 == set_row(m3, s, "D", 0, flip(col(view(m3, m3.objs[s]["R"]), 0)))
        IN  set_col(m4, s, "R", 0, temp)
    ELSE IF direction_key = "-" THEN
        LET m1 == setitem(mem, s, "F", rot90_view(mem.objs[s]["F"], 1))
            temp == row(view(m1, m1.objs[s]["U"]), 2)
            m2 == set_row(m1, s, "U", 2, col(view(m1, m1.objs[s]["R"]), 0))
            m3 == set_col(m2, s, "R", 0, flip(row(view(m2, m2.objs[s]["D"]), 0)))
            m4 == set_row(m3, s, "D", 0, col(view(m3, m3.objs[s]["L"]), 2))
        IN  set_col(m4, s, "L", 2, flip(temp))
    ELSE mem

\* for _ in range(n): self.change_orientation(d)
RECURSIVE repeat_orientation(_, _, _, _)
repeat_orientation(mem, s, d, n) ==
    IF n <= 0 THEN mem
    ELSE repeat_orientation(change_orientation(mem, s, d), s, d, n - 1)

\* for d, n in table_entry: for _ in range(n % 4): self.change_orientation(d)
RECURSIVE apply_entries(_, _, _)
apply_entries(mem, s, entries) ==
    IF entries = <<>> THEN mem
    ELSE apply_entries(
           repeat_orientation(mem, s, Head(entries)[1], Head(entries)[2] % 4),
           s, Tail(entries))

\* Mutant: range(n) in place of range(n % 4), so a negative count turns nothing.
RECURSIVE apply_entries_nomod(_, _, _)
apply_entries_nomod(mem, s, entries) ==
    IF entries = <<>> THEN mem
    ELSE apply_entries_nomod(
           repeat_orientation(mem, s, Head(entries)[1], Head(entries)[2]),
           s, Tail(entries))

forward_set_front_nomod(mem, s, face_key) ==
    apply_entries_nomod(mem, s, adjacency[face_key])

forward_set_front(mem, s, face_key) == apply_entries(mem, s, adjacency[face_key])

\* Mutant: the way back read from the forward table.
backward_set_front_forward(mem, s, face_key) ==
    apply_entries(mem, s, adjacency[face_key])

backward_set_front(mem, s, face_key) ==
    apply_entries(mem, s, counter_adjacency[face_key])

move(mem, s, face_key, direction_key) ==
    backward_set_front(
        perform_rotation(forward_set_front(mem, s, face_key), s, direction_key),
        s, face_key)

\* Mutants: the faces assigned without np.copy.
RECURSIVE share_faces(_, _, _, _)
share_faces(mem, from, to, faces) ==
    IF faces = <<>> THEN mem
    ELSE share_faces(setitem(mem, to, Head(faces), mem.objs[from][Head(faces)]),
                     from, to, Tail(faces))

copy_state_shared(mem, s) == share_faces(empty_dict(mem), s, new_obj(mem), face_keys)

restore_state_shared(mem, s, state_copy) == share_faces(mem, state_copy, s, face_keys)

\* copy_state: a new dict of np.copy of every face; its id is new_obj(mem).
RECURSIVE copy_faces(_, _, _, _)
copy_faces(mem, from, to, faces) ==
    IF faces = <<>> THEN mem
    ELSE LET ref == fresh(mem)
             m1 == allocate(mem, view(mem, mem.objs[from][Head(faces)]))
         IN  copy_faces(setitem(m1, to, Head(faces), ref), from, to, Tail(faces))

copy_state(mem, s) == copy_faces(empty_dict(mem), s, new_obj(mem), face_keys)

\* restore_state: self.state[face] = np.copy(state_copy[face]) for every face
restore_state(mem, s, state_copy) == copy_faces(mem, state_copy, s, face_keys)

\* Mutant: scramble_moves is used: a reset asked to scramble turns a face of
\* the new cube.
reset_state_scramble(mem, scramble_moves) ==
    IF scramble_moves > 0
    THEN move(new_cube(mem), new_obj(mem), "F", "+")
    ELSE new_cube(mem)

\* reset_state: self.state is a new dict (id new_obj(mem)) of np.full arrays;
\* scramble_moves is not read.
reset_state(mem, scramble_moves) == new_cube(mem)

\* Mutant: range(t - 1), the last pick is never applied.
RECURSIVE shuffle_state_short(_, _, _)
shuffle_state_short(mem, s, picks) ==
    IF Len(picks) <= 1 THEN mem
    ELSE shuffle_state_short(move(mem, s, Head(picks)[1], Head(picks)[2]), s,
                             Tail(picks))

\* shuffle_state: the moves random.choice picked, applied in order.  (Each
\* move is bound as a value, m, before the next one is worked out: TLC would
\* otherwise nest the evaluations of all the moves.)
RECURSIVE shuffle_state(_, _, _)
shuffle_state(mem, s, picks) ==
    IF picks = <<>> THEN mem
    ELSE CHOOSE r \in {shuffle_state(m, s, Tail(picks)) :
                         m \in {move(mem, s, Head(picks)[1], Head(picks)[2])}} : TRUE

\* Mutant: every face compared with the colour it was built with, in place of
\* its own cell (0, 0).
is_solved_construction(mem, s) ==
    \A f \in DOMAIN mem.objs[s] :
        LET face == view(mem, mem.objs[s][f])
        IN  \A i, j \in Idx :
                face[i][j] = color_keys[CHOOSE k \in DOMAIN face_keys : face_keys[k] = f]

is_solved(mem, s) ==
    \A f \in DOMAIN mem.objs[s] :
        LET face == view(mem, mem.objs[s][f])
        IN  \A i, j \in Idx : face[i][j] = face[0][0]

(***************************************************************************)
(* The state machine: one action per call a driver can make.               *)
(***************************************************************************)
Mem == Memory(heap, objs)

NoMemory == Memory([x \in {} |-> 0], [x \in {} |-> 0])

\* What a driver may pass: the keys of the class and one value outside them.
FaceInputs == Faces \cup {"X"}
DirectionInputs == Directions \cup {"x"}
OrientationInputs == Range(orientation_key) \cup {"x"}

\* A call: the method, its key arguments (arg, dir), its number argument (n),
\* what random.choice returned during it (picks) and the exception it ended in.
Call(op, arg, dir, n, picks, raised) ==
    [op |-> op, arg |-> arg, dir |-> dir, n |-> n, picks |-> picks, raised |-> raised]

\* The call leaves memory mem, self.state at dict s and the caller's snapshot
\* variable at c.
Finish(mem, s, c, call) ==
    LET m == collect(mem, {s, solved_state, c})
    IN  /\ heap' = m.heap
        /\ objs' = m.objs
        /\ state' = s
        /\ snap' = c
        /\ solved_state' = solved_state
        /\ hist' = Append(hist, call)
        /\ trail' = Append(trail, grids(Mem, state))

Init ==
    /\ heap = new_cube(NoMemory).heap
    /\ objs = new_cube(NoMemory).objs
    /\ state = new_obj(NoMemory)
    /\ solved_state = new_obj(NoMemory)
    /\ snap = 0
    /\ hist = <<>>
    /\ trail = <<>>

\* Mutant: the face is looked up after the rotation (in backward_set_front
\* only), so the KeyError comes when the front face has been turned.
Move_late(f, d) ==
    IF f \in DOMAIN adjacency
    THEN Finish(move(Mem, state, f, d), state, snap, Call("move", f, d, 0, <<>>, "none"))
    ELSE Finish(perform_rotation(Mem, state, d), state, snap,
                Call("move", f, d, 0, <<>>, "KeyError"))

\* move(face_key, direction_key); self.adjacency[face_key] raises KeyError for
\* a face that is no key of the table, before anything is changed.
Move(f, d) ==
    IF f \in DOMAIN adjacency
    THEN Finish(move(Mem, state, f, d), state, snap, Call("move", f, d, 0, <<>>, "none"))
    ELSE Finish(Mem, state, snap, Call("move", f, d, 0, <<>>, "KeyError"))

ChangeOrientation(k) ==
    Finish(change_orientation(Mem, state, k), state, snap,
           Call("change_orientation", k, "", 0, <<>>, "none"))

\* apply_random_move: after the two random choices, self.action is looked up;
\* the class has no such attribute.
ApplyRandomMove ==
    /\ "action" \notin Methods
    /\ \E f \in Faces, d \in Directions :
          Finish(Mem, state, snap,
                 Call("apply_random_move", "", "", 0, <<<<f, d>>>>, "AttributeError"))

CopyState ==
    Finish(copy_state(Mem, state), state, new_obj(Mem),
           Call("copy_state", "", "", 0, <<>>, "none"))

RestoreState ==
    /\ snap # 0
    /\ Finish(restore_state(Mem, state, snap), state, snap,
              Call("restore_state", "snapshot", "", 0, <<>>, "none"))

ResetState(n) ==
    Finish(reset_state(Mem, n), new_obj(Mem), snap,
           Call("reset_state", "", "", n, <<>>, "none"))

ShuffleState(t) ==
    \E picks \in [1..t -> Faces \X Directions] :
        Finish(shuffle_state(Mem, state, picks), state, snap,
               Call("shuffle_state", "", "", t, picks, "none"))

\* A dict the driver builds itself, holding the six grids g: its id is
\* new_obj(mem).
RECURSIVE load_faces(_, _, _, _)
load_faces(mem, d, g, faces) ==
    IF faces = <<>> THEN mem
    ELSE LET ref == fresh(mem)
             m1 == allocate(mem, g[Head(faces)])
         IN  load_faces(setitem(m1, d, Head(faces), ref), d, g, Tail(faces))

caller_dict(mem, g) == load_faces(empty_dict(mem), new_obj(mem), g, face_keys)

\* The six grids with 54 different cell values (dtype=object takes any value).
Position(f) == CHOOSE k \in DOMAIN face_keys : face_keys[k] = f
Labelled == [f \in Faces |-> [i \in Idx |-> [j \in Idx |->
                 100 + 9 * (Position(f) - 1) + 3 * i + j]]]

\* restore_state(buf), buf a dict the driver built; buf is dropped after the call.
RestoreFrom(g) ==
    Finish(restore_state(caller_dict(Mem, g), state, new_obj(Mem)), state, snap,
           Call("restore_state", "caller", "", 0, <<>>, "none"))

Next ==
    /\ Len(hist) < MaxSteps
    /\ \/ \E f \in FaceInputs, d \in DirectionInputs : Move(f, d)
       \/ \E k \in OrientationInputs : ChangeOrientation(k)
       \/ ApplyRandomMove
       \/ CopyState
       \/ RestoreState
       \/ \E n \in 0..1 : ResetState(n)
       \/ \E t \in 0..1 : ShuffleState(t)

Spec == Init /\ [][Next]_vars

(***************************************************************************)
(* Drivers that only turn faces.                                           *)
(***************************************************************************)

\* The driver may first load the labelled cube, then turns faces and
\* re-orients the cube.
\* The calls made so far, the loading of the labelled cube not counted.
CallsMade == Cardinality({k \in DOMAIN hist : hist[k].arg # "caller"})

NextTurns ==
    \/ /\ hist = <<>>
       /\ RestoreFrom(Labelled)
    \/ /\ CallsMade < MaxTurns
       /\ \/ \E f \in Faces, d \in Directions : Move(f, d)
          \/ \E k \in Range(orientation_key) : ChangeOrientation(k)

SpecTurns == Init /\ [][NextTurns]_vars

\* The driver may first load the labelled cube, makes up to MaxPrefix moves of
\* its choice and from then on repeats its last move, MaxRepeat times at most.
RECURSIVE RunLength(_)
RunLength(h) ==
    IF Len(h) = 0 \/ h[Len(h)].op # "move" THEN 0
    ELSE IF Len(h) = 1 THEN 1
    ELSE IF h[Len(h) - 1] = h[Len(h)] THEN 1 + RunLength(SubSeq(h, 1, Len(h) - 1))
    ELSE 1

NextRepeat ==
    \/ /\ hist = <<>>
       /\ RestoreFrom(Labelled)
    \/ /\ CallsMade < MaxPrefix
       /\ RunLength(hist) <= 1
       /\ \E f \in Faces, d \in Directions : Move(f, d)
    \/ /\ RunLength(hist) \in 1..(MaxRepeat - 1)
       /\ Move(hist[Len(hist)].arg, hist[Len(hist)].dir)

SpecRepeat == Init /\ [][NextRepeat]_vars

(***************************************************************************)
(* A driver that takes and restores snapshots between turns.               *)
(***************************************************************************)
NextSnap ==
    \/ /\ hist = <<>>
       /\ RestoreFrom(Labelled)
    \/ /\ CallsMade < MaxSnapSteps
       /\ \/ CopyState
          \/ RestoreState
          \/ \E f \in Faces, d \in Directions : Move(f, d)
          \/ \E k \in Range(orientation_key) : ChangeOrientation(k)
          \/ ResetState(0)

SpecSnap == Init /\ [][NextSnap]_vars

(***************************************************************************)
(* A driver that shuffles a new cube.                                      *)
(***************************************************************************)
NextShuffle ==
    /\ hist = <<>>
    /\ \E t \in 0..MaxShuffle : ShuffleState(t)

SpecShuffle == Init /\ [][NextShuffle]_vars

(***************************************************************************)
(* A driver that turns the cube and then resets it.                        *)
(***************************************************************************)
\* What a driver may pass as scramble_moves.
ScrambleInputs == (-1)..MaxScramble

\* The driver may first load the labelled cube, makes up to MaxResetTurns
\* turns and re-orientations, and resets the cube once, at any point.
NextReset ==
    \/ /\ hist = <<>>
       /\ RestoreFrom(Labelled)
    \/ /\ CallsMade < MaxResetTurns
       /\ \A k \in DOMAIN hist : hist[k].op # "reset_state"
       /\ \/ \E f \in Faces, d \in Directions : Move(f, d)
          \/ \E k \in Range(orientation_key) : ChangeOrientation(k)
    \/ /\ \A k \in DOMAIN hist : hist[k].op # "reset_state"
       /\ \E n \in ScrambleInputs : ResetState(n)

SpecReset == Init /\ [][NextReset]_vars

(***************************************************************************)
(* A driver that runs one orientation sequence again and again.            *)
(***************************************************************************)
\* The counts a table entry (d, n) may hold.
CountInputs == (-MaxCount)..MaxCount

\* The loop of forward_set_front and backward_set_front for one entry (d, n):
\* for _ in range(n % 4): self.change_orientation(d)
OrientationSequence(d, n) ==
    Finish(apply_entries(Mem, state, <<<<d, n>>>>), state, snap,
           Call("orientation_sequence", d, "", n, <<>>, "none"))

\* The orientation sequences at the end of the calls made so far.
RECURSIVE SequencesRun(_)
SequencesRun(h) ==
    IF Len(h) = 0 \/ h[Len(h)].op # "orientation_sequence" THEN 0
    ELSE 1 + SequencesRun(SubSeq(h, 1, Len(h) - 1))

\* The driver may first load the labelled cube, makes up to MaxSeqPrefix turns
\* and re-orientations, then runs one orientation sequence of its choice
\* MaxSeqRepeat times at most.
NextSequence ==
    \/ /\ hist = <<>>
       /\ RestoreFrom(Labelled)
    \/ /\ CallsMade < MaxSeqPrefix
       /\ SequencesRun(hist) = 0
       /\ \/ \E f \in Faces, d \in Directions : Move(f, d)
          \/ \E k \in Range(orientation_key) : ChangeOrientation(k)
    \/ /\ SequencesRun(hist) = 0
       /\ \E d \in Range(orientation_key), n \in CountInputs : OrientationSequence(d, n)
    \/ /\ SequencesRun(hist) \in 1..(MaxSeqRepeat - 1)
       /\ OrientationSequence(hist[Len(hist)].arg, hist[Len(hist)].n)

SpecSequence == Init /\ [][NextSequence]_vars

(***************************************************************************)
(* A driver that brings a face to the front and takes it back.             *)
(***************************************************************************)
\* forward_set_front(face_key); self.adjacency[face_key] raises KeyError for a
\* face that is no key of the table.
ForwardSetFront(f) ==
    IF f \in DOMAIN adjacency
    THEN Finish(forward_set_front(Mem, state, f), state, snap,
                Call("forward_set_front", f, "", 0, <<>>, "none"))
    ELSE Finish(Mem, state, snap, Call("forward_set_front", f, "", 0, <<>>, "KeyError"))

\* backward_set_front(face_key), likewise with self.counter_adjacency.
BackwardSetFront(f) ==
    IF f \in DOMAIN counter_adjacency
    THEN Finish(backward_set_front(Mem, state, f), state, snap,
                Call("backward_set_front", f, "", 0, <<>>, "none"))
    ELSE Finish(Mem, state, snap, Call("backward_set_front", f, "", 0, <<>>, "KeyError"))

\* The driver may first load the labelled cube, makes up to MaxFrontPrefix
\* turns and re-orientations, then calls forward_set_front and, after it,
\* backward_set_front.
NextFront ==
    \/ /\ hist = <<>>
       /\ RestoreFrom(Labelled)
    \/ /\ CallsMade < MaxFrontPrefix
       /\ \A k \in DOMAIN hist : hist[k].op \notin {"forward_set_front", "backward_set_front"}
       /\ \/ \E f \in Faces, d \in Directions : Move(f, d)
          \/ \E k \in Range(orientation_key) : ChangeOrientation(k)
    \/ /\ \A k \in DOMAIN hist : hist[k].op \notin {"forward_set_front", "backward_set_front"}
       /\ \E f \in FaceInputs : ForwardSetFront(f)
    \/ /\ hist # <<>>
       /\ hist[Len(hist)].op = "forward_set_front"
       /\ \E f \in FaceInputs : BackwardSetFront(f)

SpecFront == Init /\ [][NextFront]_vars

(***************************************************************************)
(* A driver that repeats the four moves a+ b+ a- b- on a new cube, as the  *)
(* example usage does with R and U.                                        *)
(***************************************************************************)
\* The driver picks two different faces a and b with its first two moves,
\* a+ and b+, goes on with a-, b-, and repeats the four, MaxRounds rounds at
\* most.
NextRounds ==
    /\ Len(hist) < 4 * MaxRounds
    /\ \/ /\ Len(hist) = 0
          /\ \E a \in Faces : Move(a, "+")
       \/ /\ Len(hist) = 1
          /\ \E b \in Faces \ {hist[1].arg} : Move(b, "+")
       \/ /\ Len(hist) >= 2
          /\ Move(hist[IF Len(hist) % 2 = 0 THEN 1 ELSE 2].arg,
                  IF Len(hist) % 4 \in {0, 1} THEN "+" ELSE "-")

SpecRounds == Init /\ [][NextRounds]_vars

(***************************************************************************)
(* Properties.                                                             *)
(***************************************************************************)
Now == grids(Mem, state)
Calls == Len(hist)
Last == hist[Calls]

IsMove(c, f, d) == c.op = "move" /\ c.arg = f /\ c.dir = d /\ c.raised = "none"

Opposite(d) == IF d = "+" THEN "-" ELSE "+"

\* Two sets of six grids hold the same value in every cell.
Same(g1, g2) ==
    \A a \in {g1}, b \in {g2} :
        /\ DOMAIN a = DOMAIN b
        /\ \A f \in DOMAIN a :
              /\ DOMAIN a[f] = DOMAIN b[f]
              /\ \A i \in DOMAIN a[f] :
                    /\ DOMAIN a[f][i] = DOMAIN b[f][i]
                    /\ \A j \in DOMAIN a[f][i] : a[f][i][j] = b[f][i][j]

\* C1: a move of a face followed at once by the move of the same face in the
\* other direction leaves the six grids as they were before the first of the
\* two, for each face and both orders.
C1_InverseCancels ==
    \A f \in Faces, d \in Directions :
        (/\ Calls >= 2
         /\ IsMove(hist[Calls - 1], f, d)
         /\ IsMove(Last, f, Opposite(d)))
        => Same(Now, trail[Calls - 1])

\* C1 witness: on a cube that is no longer in its first state, R- has just
\* undone R+ (and, in another run, L+ has undone L-).
C1_Witness ==
    /\ Calls >= 3
    /\ IsMove(hist[Calls - 1], "R", "+")
    /\ IsMove(Last, "R", "-")
    /\ ~Same(trail[Calls - 1], trail[1])
    /\ ~Same(trail[Calls], trail[Calls - 1])
    /\ Same(Now, trail[Calls - 1])

\* The cells of the six grids, as a bag of values.
CellsOf(g) == {<<f, i, j>> : f \in DOMAIN g, i \in Idx, j \in Idx}
Count(g, c) == Cardinality({p \in CellsOf(g) : g[p[1]][p[2]][p[3]] = c})
Values(g) == {g[p[1]][p[2]][p[3]] : p \in CellsOf(g)}
SameBag(g1, g2) ==
    /\ CellsOf(g1) = CellsOf(g2)
    /\ Values(g1) = Values(g2)
    /\ \/ Cardinality(Values(g1)) = Cardinality(CellsOf(g1))
       \/ \A c \in Values(g1) : Count(g1, c) = Count(g2, c)

OnlyTurns(h) == \A k \in DOMAIN h : h[k].op \in {"move", "change_orientation"}

\* C2: a move permutes the 54 cells: the cells after it hold the values the
\* cells before it held, each as often (on the labelled cube: each of the 54
\* values once); and after any sequence of moves and re-orientations of a new
\* cube every face is a 3x3 grid and each of the six colours is on 9 cells.
C2_MovesPermuteFacelets ==
    \A now \in {Now} :
        /\ (Calls >= 1 /\ Last.op = "move") =>
              \A old \in {trail[Calls]} : SameBag(now, old)
        /\ OnlyTurns(hist) =>
              /\ DOMAIN now = Faces
              /\ \A f \in Faces :
                    DOMAIN now[f] = Idx /\ \A i \in Idx : DOMAIN now[f][i] = Idx
              /\ \A c \in Range(color_keys) : Count(now, c) = 9

\* C2 witness: moves of two different faces have been made on the labelled
\* cube, all 54 values are still there, and no face shows its own nine.
C2_Witness ==
    /\ Calls >= 3
    /\ Same(trail[2], Labelled)
    /\ Last.op = "move" /\ hist[Calls - 1].op = "move"
    /\ Last.arg # hist[Calls - 1].arg
    /\ Cardinality(Values(Now)) = 54
    /\ Cardinality({f \in Faces : (\A i, j \in Idx : Now[f][i][j] = Labelled[f][i][j])}) <= 1

\* C3: the same move made four times in a row leaves the six grids as they
\* were before the first of the four, for each face and direction.
C3_FourTurnsIdentity ==
    \A f \in Faces, d \in Directions :
        (/\ Calls >= 4
         /\ \A k \in (Calls - 3)..Calls : IsMove(hist[k], f, d))
        => Same(Now, trail[Calls - 3])

\* C3 witness: D- has been made four times on a labelled cube that another
\* move had changed before, and each of the four changed the cube.
C3_Witness ==
    /\ Calls >= 6
    /\ Same(trail[2], Labelled)
    /\ \A k \in (Calls - 3)..Calls : IsMove(hist[k], "D", "-")
    /\ hist[Calls - 4] # Last
    /\ ~Same(trail[Calls - 3], Labelled)
    /\ ~Same(trail[Calls - 2], trail[Calls - 3])
    /\ ~Same(trail[Calls], trail[Calls - 3])
    /\ Same(Now, trail[Calls - 3])

\* A grid turned a quarter clockwise / counter-clockwise, cell by cell.
Clockwise(m) == [i \in Idx |-> [j \in Idx |-> m[2 - j][i]]]
CounterClockwise(m) == [i \in Idx |-> [j \in Idx |-> m[j][2 - i]]]
Reversed(v) == <<v[2], v[1], v[0]>>
Line(v) == <<v[0], v[1], v[2]>>

\* C4: move('F','+') turns the Front grid clockwise, Up row 2 gets the old
\* Left column 2 reversed, Left column 2 the old Down row 0, Down row 0 the old
\* Right column 0 reversed, Right column 0 the old Up row 2; move('F','-') turns
\* Front counter-clockwise, Up row 2 gets the old Right column 0, Right column
\* 0 the old Down row 0 reversed, Down row 0 the old Left column 2, Left column
\* 2 the old Up row 2 reversed.  Old means before the move.
C4_FrontTurnCycle ==
    LET old == trail[Calls]
    IN  /\ (Calls >= 1 /\ IsMove(Last, "F", "+")) =>
              /\ \A i, j \in Idx : Now["F"][i][j] = Clockwise(old["F"])[i][j]
              /\ Line(row(Now["U"], 2)) = Reversed(col(old["L"], 2))
              /\ Line(col(Now["L"], 2)) = Line(row(old["D"], 0))
              /\ Line(row(Now["D"], 0)) = Reversed(col(old["R"], 0))
              /\ Line(col(Now["R"], 0)) = Line(row(old["U"], 2))
        /\ (Calls >= 1 /\ IsMove(Last, "F", "-")) =>
              /\ \A i, j \in Idx : Now["F"][i][j] = CounterClockwise(old["F"])[i][j]
              /\ Line(row(Now["U"], 2)) = Line(col(old["R"], 0))
              /\ Line(col(Now["R"], 0)) = Reversed(row(old["D"], 0))
              /\ Line(row(Now["D"], 0)) = Line(col(old["L"], 2))
              /\ Line(col(Now["L"], 2)) = Reversed(row(old["U"], 2))

\* C4 witness: F+ has just been made on a labelled cube that an earlier turn
\* had changed, and Up row 2 now reads the old Left column 2 from bottom to top.
C4_Witness ==
    /\ Calls >= 3
    /\ Same(trail[2], Labelled)
    /\ IsMove(Last, "F", "+")
    /\ ~Same(trail[Calls], Labelled)
    /\ Cardinality(Values(trail[Calls])) = 54
    /\ Now["U"][2][0] = trail[Calls]["L"][2][2]
    /\ Now["U"][2][2] = trail[Calls]["L"][0][2]
    /\ Now["R"][0][0] = trail[Calls]["U"][2][0]

\* The six grids move(f, d) makes of the six grids g.
MoveOf(g, f, d) ==
    grids(move(caller_dict(NoMemory, g), new_obj(NoMemory), f, d), new_obj(NoMemory))

\* C5: apply_random_move() ends without an error and leaves the cube as
\* move(f, d) would leave the cube it found, for one of the six faces f and
\* one of the two directions d.
C5_RandomMoveApplies ==
    (Calls >= 1 /\ Last.op = "apply_random_move") =>
        /\ Last.raised = "none"
        /\ \E f \in Faces, d \in Directions : Same(Now, MoveOf(trail[Calls], f, d))

\* The colour a face is built with.
ColourOf(f) == color_keys[Position(f)]

\* C6: a cube on which nothing has been called yet is solved, and every cell
\* of each face holds the colour the face was built with.
C6_FreshCubeSolved ==
    hist = <<>> =>
        /\ is_solved(Mem, state)
        /\ \A f \in Faces : \A i, j \in Idx : Now[f][i][j] = ColourOf(f)

\* C6 witness: the new cube, six faces of six different colours.
C6_Witness ==
    /\ hist = <<>>
    /\ DOMAIN Now = Faces
    /\ Cardinality(Values(Now)) = 6
    /\ Now["F"][0][0] = 1 /\ Now["L"][2][2] = 6

\* The call that took the snapshot the driver holds.
SnapshotCall ==
    CHOOSE k \in DOMAIN hist :
        /\ hist[k].op = "copy_state"
        /\ \A m \in DOMAIN hist : hist[m].op = "copy_state" => m <= k

\* C7: restore_state(s), s taken by copy_state() some calls earlier, leaves
\* the six grids as they were when s was taken, whatever was called between.
C7_RestoreReproducesSnapshot ==
    (Calls >= 1 /\ Last.op = "restore_state" /\ Last.arg = "snapshot") =>
        Same(Now, trail[SnapshotCall])

\* C7 witness: a snapshot of a turned cube was taken, the cube was turned
\* again, and restore_state has just brought the snapshot's grids back.
C7_Witness ==
    /\ Calls >= 3
    /\ Last.op = "restore_state" /\ Last.arg = "snapshot"
    /\ hist[Calls - 1].op = "move"
    /\ SnapshotCall = Calls - 2
    /\ ~Same(trail[SnapshotCall], trail[1])
    /\ ~Same(trail[Calls], trail[SnapshotCall])
    /\ Same(Now, trail[SnapshotCall])

BuffersOf(d) == {objs[d][f].buf : f \in Faces}

\* C8: the snapshot the driver holds shares no array with the cube, and its
\* grids stay as they were when it was taken, through every later move,
\* change_orientation, reset_state and restore_state of it.
C8_SnapshotIsolated ==
    snap # 0 =>
        /\ Same(grids(Mem, snap), trail[SnapshotCall])
        /\ BuffersOf(snap) \cap BuffersOf(state) = {}
        /\ snap # state

\* C8 witness: the snapshot was restored and a face was turned after that;
\* the cube differs from the snapshot, which still shows what it captured.
C8_Witness ==
    /\ Calls >= 3
    /\ snap # 0
    /\ hist[Calls - 1].op = "restore_state" /\ hist[Calls - 1].arg = "snapshot"
    /\ Last.op = "move"
    /\ SnapshotCall < Calls - 1
    /\ ~Same(Now, grids(Mem, snap))
    /\ Same(grids(Mem, snap), trail[SnapshotCall])

\* C9: a direction outside '+', '-' given to move, and an orientation outside
\* 'h', 'v' given to change_orientation, ends in an error.
C9_BadInputRejected ==
    (/\ Calls >= 1
     /\ \/ Last.op = "move" /\ Last.dir \notin Directions
        \/ Last.op = "change_orientation" /\ Last.arg \notin Range(orientation_key))
    => Last.raised # "none"

\* The moves of picks, first to last, on the six grids g; and their opposites,
\* last to first.
RECURSIVE ReplayIn(_, _, _)
ReplayIn(mem, s, picks) ==
    IF picks = <<>> THEN mem
    ELSE CHOOSE r \in {ReplayIn(m, s, Tail(picks)) :
                         m \in {move(mem, s, Head(picks)[1], Head(picks)[2])}} : TRUE

RECURSIVE UndoIn(_, _, _)
UndoIn(mem, s, picks) ==
    IF picks = <<>> THEN mem
    ELSE CHOOSE r \in {UndoIn(m, s, SubSeq(picks, 1, Len(picks) - 1)) :
                         m \in {move(mem, s, picks[Len(picks)][1],
                                     Opposite(picks[Len(picks)][2]))}} : TRUE

Replay(g, picks) ==
    grids(ReplayIn(caller_dict(NoMemory, g), new_obj(NoMemory), picks),
          new_obj(NoMemory))

\* The six grids the cube would show after undoing picks from where it is.
Undone(picks) == grids(UndoIn(Mem, state, picks), state)

\* C10: shuffle_state(n) on a new cube makes n moves, each one of the twelve
\* of move_keys, and the opposite moves made in reverse order on the cube it
\* leaves give the solved cube of the start back.
C10_ShuffleIsNMoves ==
    (Calls = 1 /\ Last.op = "shuffle_state") =>
        /\ Len(Last.picks) = Last.n
        /\ \A k \in DOMAIN Last.picks : Last.picks[k] \in Range(move_keys)
        /\ \A undone \in {Undone(Last.picks)} :
              /\ Same(undone, trail[1])
              /\ \A f \in Faces : \A i, j \in Idx : undone[f][i][j] = ColourOf(f)

\* C10 witness: shuffle_state(MaxShuffle) has left a cube that is not solved,
\* by moves of at least two faces; it is the cube these moves make of the
\* solved one.
C10_Witness ==
    /\ Calls = 1 /\ Last.op = "shuffle_state"
    /\ Last.n >= MaxShuffle
    /\ Cardinality({Last.picks[k][1] : k \in DOMAIN Last.picks}) >= 2
    /\ ~is_solved(Mem, state)
    /\ ~Same(Now, trail[1])
    /\ Same(Now, Replay(trail[1], Last.picks))

\* Every face of the six grids g shows one value on its nine cells.
Uniform(g) == \A f \in DOMAIN g : Cardinality({g[f][i][j] : i, j \in Idx}) = 1

\* C11: is_solved() is true exactly when each of the six faces shows one value
\* on all nine cells, whatever value that is; and change_orientation called on
\* a cube whose faces are uniform leaves a cube that is_solved() accepts.
C11_SolvedIffUniform ==
    /\ is_solved(Mem, state) <=> Uniform(Now)
    /\ (Calls >= 1 /\ Last.op = "change_orientation" /\ Uniform(trail[Calls]))
          => is_solved(Mem, state)

\* C11 witness: a new cube re-oriented about both axes: it is solved, and the
\* Front and Up faces show colours other than the ones they were built with.
C11_Witness ==
    /\ Calls >= 2
    /\ \A k \in DOMAIN hist : hist[k].op = "change_orientation"
    /\ {hist[k].arg : k \in DOMAIN hist} = Range(orientation_key)
    /\ is_solved(Mem, state)
    /\ Now["F"][0][0] # ColourOf("F")
    /\ Now["U"][2][2] # ColourOf("U")

\* C12: reset_state, whatever it is given as scramble_moves and whatever the
\* cube was before, leaves the six faces of the construction: every cell of
\* each face holds the colour the face was built with, and is_solved() is true.
C12_ResetGivesConstruction ==
    (Calls >= 1 /\ Last.op = "reset_state") =>
        /\ DOMAIN Now = Faces
        /\ \A f \in Faces : \A i, j \in Idx : Now[f][i][j] = ColourOf(f)
        /\ is_solved(Mem, state)

\* C12 witness: reset_state with a positive scramble_moves has just been
\* called on a labelled cube that turns of two kinds had changed.
C12_Witness ==
    /\ Calls >= 4
    /\ Last.op = "reset_state" /\ Last.n >= 1
    /\ hist[Calls - 1].op = "move" /\ hist[Calls - 2].op = "change_orientation"
    /\ Cardinality(Values(trail[Calls])) = 54
    /\ ~Same(trail[Calls], Labelled)
    /\ is_solved(Mem, state)
    /\ Cardinality(Values(Now)) = 6

IsSequence(c, d, n) == c.op = "orientation_sequence" /\ c.arg = d /\ c.n = n

\* C13: for each axis and every count k, negative ones included, the
\* orientation sequence (axis, k), which is change_orientation(axis) made
\* k mod 4 times, run four times in a row leaves the six grids as they were
\* before the first of the four.
C13_SequenceFourTimesIdentity ==
    \A d \in Range(orientation_key), n \in CountInputs :
        (/\ Calls >= 4
         /\ \A k \in (Calls - 3)..Calls : IsSequence(hist[k], d, n))
        => Same(Now, trail[Calls - 3])

\* C13 witness: the sequence ('v', -1), three vertical quarter turns, has been
\* run four times on a labelled cube that a move had changed; the cube was
\* different after the first and after the second run, and is back.
C13_Witness ==
    /\ Calls >= 6
    /\ Same(trail[2], Labelled)
    /\ hist[Calls - 4].op = "move"
    /\ \A k \in (Calls - 3)..Calls : IsSequence(hist[k], "v", -1)
    /\ ~Same(trail[Calls - 3], Labelled)
    /\ ~Same(trail[Calls - 2], trail[Calls - 3])
    /\ ~Same(trail[Calls - 1], trail[Calls - 3])
    /\ ~Same(trail[Calls], trail[Calls - 3])
    /\ Same(Now, trail[Calls - 3])

\* The cells of row i / of column j of face f.
RowCells(f, i) == {<<f, i, j>> : j \in Idx}
ColCells(f, j) == {<<f, i, j>> : i \in Idx}
FaceCells(f) == {<<f, i, j>> : i, j \in Idx}

\* The line of each of the four neighbours of face f that borders f.
Border(f) ==
    CASE f = "F" -> RowCells("U", 2) \cup RowCells("D", 0) \cup ColCells("L", 2) \cup ColCells("R", 0)
      [] f = "B" -> RowCells("U", 0) \cup RowCells("D", 2) \cup ColCells("R", 2) \cup ColCells("L", 0)
      [] f = "U" -> RowCells("F", 0) \cup RowCells("R", 0) \cup RowCells("B", 0) \cup RowCells("L", 0)
      [] f = "D" -> RowCells("F", 2) \cup RowCells("R", 2) \cup RowCells("B", 2) \cup RowCells("L", 2)
      [] f = "R" -> ColCells("F", 2) \cup ColCells("U", 2) \cup ColCells("D", 2) \cup ColCells("B", 0)
      [] f = "L" -> ColCells("F", 0) \cup ColCells("U", 0) \cup ColCells("D", 0) \cup ColCells("B", 2)

OppositeFace(f) ==
    CASE f = "F" -> "B" [] f = "B" -> "F" [] f = "U" -> "D"
      [] f = "D" -> "U" [] f = "R" -> "L" [] f = "L" -> "R"

\* The cells whose value differs between the six grids g1 and g2.
Changed(g1, g2) == {p \in CellsOf(g1) : g1[p[1]][p[2]][p[3]] # g2[p[1]][p[2]][p[3]]}

\* C14: move(f, d) changes cells of face f and of the bordering line of each
\* of its four neighbours only; the opposite face and every other cell hold
\* what they held before the move.
C14_MoveFrame ==
    \A f \in Faces, d \in Directions :
        (Calls >= 1 /\ IsMove(Last, f, d)) =>
            \A changed \in {Changed(Now, trail[Calls])} :
                /\ changed \subseteq FaceCells(f) \cup Border(f)
                /\ changed \cap FaceCells(OppositeFace(f)) = {}

\* C14 witness: a move of Back on a labelled cube that a move of another face
\* had changed: the 8 cells around the centre of Back and the 12 cells of its
\* border all changed, and nothing else did.
C14_Witness ==
    /\ Calls >= 3
    /\ Same(trail[2], Labelled)
    /\ Last.op = "move" /\ Last.arg = "B" /\ Last.raised = "none"
    /\ hist[Calls - 1].op = "move" /\ hist[Calls - 1].arg \notin {"B", "F"}
    /\ Cardinality(Values(trail[Calls])) = 54
    /\ Changed(Now, trail[Calls]) = (FaceCells("B") \cup Border("B")) \ {<<"B", 1, 1>>}

\* C15: after forward_set_front(f) the Front grid is the grid face f showed
\* before the call, cell by cell; and backward_set_front(f) called right after
\* forward_set_front(f) leaves the six grids as they were before the two.
C15_FrontRoundTrip ==
    \A f \in Faces :
        /\ (Calls >= 1 /\ Last.op = "forward_set_front" /\ Last.arg = f) =>
              /\ Last.raised = "none"
              /\ \A i, j \in Idx : Now["F"][i][j] = trail[Calls][f][i][j]
        /\ (/\ Calls >= 2
            /\ Last.op = "backward_set_front" /\ Last.arg = f
            /\ hist[Calls - 1].op = "forward_set_front" /\ hist[Calls - 1].arg = f) =>
              /\ Last.raised = "none"
              /\ Same(Now, trail[Calls - 1])

\* C15 witness: on a labelled cube that a move had changed, Down was brought
\* to the front (the Front grid then was the old Down grid, the cube another)
\* and taken back, and the six grids are those before the two calls.
C15_Witness ==
    /\ Calls >= 4
    /\ Same(trail[2], Labelled)
    /\ hist[Calls - 2].op = "move"
    /\ hist[Calls - 1].op = "forward_set_front" /\ hist[Calls - 1].arg = "D"
    /\ Last.op = "backward_set_front" /\ Last.arg = "D"
    /\ Cardinality(Values(trail[Calls - 1])) = 54
    /\ ~Same(trail[Calls - 1], Labelled)
    /\ ~Same(trail[Calls], trail[Calls - 1])
    /\ \A i, j \in Idx : trail[Calls]["F"][i][j] = trail[Calls - 1]["D"][i][j]
    /\ Same(Now, trail[Calls - 1])

\* A grid turned by a half turn, and two grids holding the same nine values.
HalfTurn(m) == [i \in Idx |-> [j \in Idx |-> m[2 - i][2 - j]]]
GridIs(a, b) == \A i, j \in Idx : a[i][j] = b[i][j]

IsOrientation(c, k) == c.op = "change_orientation" /\ c.arg = k /\ c.raised = "none"

C17_BadFaceLeavesCube ==
    (Calls >= 1 /\ Last.op = "move" /\ Last.arg \notin Faces) =>
        /\ Last.raised # "none"
        /\ Same(Now, trail[Calls])

\* C17 witness: move('X', '+') has just raised KeyError on a cube that a move
\* had taken out of the solved state, and the cube is as that move left it.
C17_Witness ==
    /\ Calls >= 2
    /\ IsMove(hist[Calls - 1], "U", "-")
    /\ Last.op = "move" /\ Last.arg = "X" /\ Last.dir = "+"
    /\ Last.raised = "KeyError"
    /\ ~Same(trail[Calls], trail[1])
    /\ ~is_solved(Mem, state)
    /\ Same(Now, trail[Calls])

\* C18: after any calls of move, change_orientation, restore_state and
\* reset_state, the dict solved_state refers to shows the construction: every
\* cell of each face holds the colour the face was built with.
C18_SolvedStateKept ==
    (\A k \in DOMAIN hist :
         hist[k].op \in {"move", "change_orientation", "restore_state", "reset_state"})
    => \A solved \in {grids(Mem, solved_state)} :
           /\ DOMAIN solved = Faces
           /\ \A f \in Faces : \A i, j \in Idx : solved[f][i][j] = ColourOf(f)

\* The calls so far are whole rounds of a+ b+ a- b-.
RoundsOf(a, b) ==
    /\ Calls >= 4 /\ Calls % 4 = 0
    /\ \A k \in DOMAIN hist :
          IsMove(hist[k], IF k % 2 = 1 THEN a ELSE b, IF k % 4 \in {1, 2} THEN "+" ELSE "-")

\* C19: on a new cube, after n rounds of move('R','+'), move('U','+'),
\* move('R','-'), move('U','-') the six grids are those of the construction
\* when n is 6 (or a multiple of 6) and are not for every other n >= 1.
C19_SixRoundsIdentity ==
    RoundsOf("R", "U") =>
        /\ \A f \in Faces : \A i, j \in Idx : trail[1][f][i][j] = ColourOf(f)
        /\ Same(Now, trail[1]) <=> (Calls \div 4) % 6 = 0
        /\ is_solved(Mem, state) <=> (Calls \div 4) % 6 = 0

\* C19 witness: six rounds of R+ U+ R- U- have been made on a new cube, the
\* cube was not solved after the third round, and it is the new cube again.
C19_Witness ==
    /\ RoundsOf("R", "U")
    /\ Calls = 24
    /\ ~Same(trail[5], trail[1])
    /\ ~Same(trail[13], trail[1])
    /\ Same(Now, trail[1])
    /\ is_solved(Mem, state)

====
